---- MODULE Spec2Model ----
(***************************************************************************)
(* Item store of the microservice scaffold: the generic CRUDRepository     *)
(* (app/repositories/base.py) over the Item table, the item service        *)
(* (app/services/item_service.py) and the items endpoints                  *)
(* (app/api/api_v1/endpoints/items.py).                                    *)
(*                                                                         *)
(* The storage engine is the PostgreSQL database of app/core/config.py:    *)
(* the primary key is drawn from a sequence, NOT NULL and primary-key      *)
(* constraints are enforced on commit, a negative OFFSET or LIMIT is an    *)
(* error, and rows of a query without ORDER BY come in no fixed order.     *)
(* The wall clock read by datetime.utcnow never runs backwards but two     *)
(* reads may return the same value.                                        *)
(***************************************************************************)
EXTENDS Integers, Sequences, FiniteSets, TLC

VARIABLES store, seq, now, assigned, last, sessions, metrics, inflight

vars == <<store, seq, now, assigned, last, sessions, metrics, inflight>>

----------------------------------------------------------------------------
(* Bounds *)

MaxId == 2          \* values the id sequence hands out: 1..MaxId
MaxTime == 2        \* clock readings: 0..MaxTime
MaxWindow == 2      \* skip and limit arguments: -1..MaxWindow
MaxUnits == 2       \* units of work that use a session: 1..MaxUnits
MaxRequests == 3    \* requests the metrics middleware receives

----------------------------------------------------------------------------
(* Values *)

\* Python None / SQL NULL, and a present value
None == <<>>
Some(v) == <<v>>

Ids == 1..MaxId
Times == 0..MaxTime
Names == {"", "a"}
Descriptions == {"d"}

NameOpt == {None} \cup {Some(n) : n \in Names}
DescriptionOpt == {None} \cup {Some(d) : d \in Descriptions}
BoolOpt == {None, Some(TRUE), Some(FALSE)}

\* columns of the item table, in table order
Columns == {"id", "created_at", "updated_at", "name", "description", "is_active"}
DomainFields == {"name", "description", "is_active"}

ItemRow(id, c, u, n, d, a) ==
    [id |-> id, created_at |-> c, updated_at |-> u,
     name |-> n, description |-> d, is_active |-> a]

----------------------------------------------------------------------------
(* Input schemas: a pydantic object is its field values (defaults filled   *)
(* in) together with the set of fields the caller set explicitly.          *)

ItemBaseDefaults == [name |-> None, description |-> None, is_active |-> Some(TRUE)]

ItemCreate ==
    {o \in [values : [name : {Some(n) : n \in Names},
                      description : DescriptionOpt,
                      is_active : {Some(TRUE), Some(FALSE)}],
            fields_set : {S \in SUBSET DomainFields : "name" \in S}] :
        \A f \in DomainFields \ o.fields_set : o.values[f] = ItemBaseDefaults[f]}

ItemUpdateDefaults == [name |-> None, description |-> None, is_active |-> None]

ItemUpdate ==
    {o \in [values : [name : NameOpt, description : DescriptionOpt, is_active : BoolOpt],
            fields_set : SUBSET DomainFields] :
        \A f \in DomainFields \ o.fields_set : o.values[f] = ItemUpdateDefaults[f]}

\* jsonable_encoder(obj_in): every field of the schema, defaults included
jsonable_encoder(obj_in) == obj_in.values

\* obj_in.dict(): every field, the unset ones with their defaults
DictWithDefaults(obj_in) == obj_in.values

\* obj_in.dict(exclude_none=True): only the fields whose value is not None
DictExcludeNone(obj_in) ==
    [f \in {g \in DomainFields : obj_in.values[g] # None} |-> obj_in.values[f]]

\* obj_in.dict(exclude_unset=True): only the fields set explicitly
DictExcludeUnset(obj_in) == [f \in obj_in.fields_set |-> obj_in.values[f]]

\* request bodies that set no field but name
NameOnlyCreate == {o \in ItemCreate : o.fields_set = {"name"}}
NameOnlyUpdate == {o \in ItemUpdate : o.fields_set \subseteq {"name"}}

----------------------------------------------------------------------------
(* Storage engine *)

\* first() of the query without the filter on id
get_first(db, id) == IF db = {} THEN {} ELSE {CHOOSE r \in db : TRUE}

\* db.query(model).filter(model.id == id).first(): the row or nothing
get(db, id) == {r \in db : r.id = id}

\* constraints checked on commit: primary key unique, name NOT NULL
PrimaryKeyFree(db, id) == \A r \in db : r.id # id
NotNullOk(row) == row.name # None

\* an id one above the largest id in the table
NextValAboveLargest(s, db) ==
    IF db = {} THEN 1
    ELSE (CHOOSE i \in {r.id : r \in db} : \A r \in db : r.id <= i) + 1

\* value the id sequence hands to an INSERT
NextVal(s, db) == s

\* outcome of an operation at the HTTP boundary
HttpStatus(outcome) ==
    CASE outcome = "ok" -> 200
      [] outcome = "not_found" -> 404
      [] outcome = "error" -> 500

----------------------------------------------------------------------------
(* State                                                                   *)
(*   store     the rows of the item table                                  *)
(*   seq       next value of the id sequence                               *)
(*   now       latest reading of the clock                                 *)
(*   assigned  ids handed to rows by INSERTs so far                        *)
(*   last      the last operation: its arguments, outcome and return value *)
(*             (a set: empty for None); for a get, also whether it came    *)
(*             right after a delete of the same id that returned the row   *)
(*   sessions  the units of work that use a storage session, each with its *)
(*             position in the code and the state of its session; in the   *)
(*             specifications of the table a request is one step, with its *)
(*             session opened and closed inside the step                   *)
(*   metrics   the two Prometheus metrics of app/core/metrics.py and the    *)
(*             requests the metrics middleware has received, each with its *)
(*             position in the middleware                                  *)
(*   inflight  requests whose service call runs in steps that other        *)
(*             requests interleave with, each with its own session and the *)
(*             object that session has loaded                              *)

Units == 1..MaxUnits

NoSessions == [u \in Units |-> [kind |-> "none", pc |-> "idle",
                                session |-> "none", outcome |-> "none"]]

Requests == 1..MaxRequests

HttpMethods == {"GET", "POST"}

Paths == {"/metrics", "/api/v1/items"}

\* label sets of REQUEST_COUNT and of REQUEST_LATENCY
CountLabels == [method : HttpMethods, endpoint : Paths,
                status_code : {200, 404}]

LatencyLabels == [method : HttpMethods, endpoint : Paths]

\* both metrics start without samples; latency holds the number of
\* observations of each histogram
NoMetrics == [count |-> [l \in CountLabels |-> 0],
              latency |-> [l \in LatencyLabels |-> 0],
              requests |-> [q \in Requests |-> [pc |-> "new"]]]

NoRequests == [u \in Units |-> [pc |-> "idle"]]

Init ==
    /\ store = {}
    /\ seq = 1
    /\ now = 0
    /\ assigned = {}
    /\ last = [op |-> "init"]
    /\ sessions = NoSessions
    /\ metrics = NoMetrics
    /\ inflight = NoRequests

----------------------------------------------------------------------------
(* POST /items: item_service.create_item -> CRUDRepository.create.         *)
(* The INSERT evaluates default=datetime.utcnow once per column, in table  *)
(* order: c for created_at, then u for updated_at.                         *)

create(db, id, obj_in, c, u) ==
    LET obj_in_data == jsonable_encoder(obj_in)
        db_obj == ItemRow(id, c, u, obj_in_data.name,
                          obj_in_data.description, obj_in_data.is_active)
    IN  IF PrimaryKeyFree(db, id) /\ NotNullOk(db_obj)
        THEN [outcome |-> "ok", db |-> db \cup {db_obj}, ret |-> {db_obj}]
        ELSE [outcome |-> "error", db |-> db, ret |-> {}]

CreateItem(bodies) ==
    /\ seq <= MaxId
    /\ \E item_in \in bodies :
       \E c \in now..MaxTime :
       \E u \in c..MaxTime :
          LET id == NextVal(seq, store)
              res == create(store, id, item_in, c, u)
          IN  /\ store' = res.db
              /\ seq' = seq + 1
              /\ now' = u
              /\ assigned' = IF res.outcome = "ok" THEN assigned \cup {id}
                             ELSE assigned
              /\ last' = [op |-> "create", id |-> id,
                          outcome |-> res.outcome, ret |-> res.ret]
              /\ UNCHANGED <<sessions, metrics, inflight>>

----------------------------------------------------------------------------
(* GET /items/{id}: item_service.get_item -> CRUDRepository.get            *)

get_item(db, id) == get(db, id)

\* a get that takes the row out of the table
ReadItemAndRemove ==
    \E id \in Ids :
        LET item == get_item(store, id)
        IN  /\ last' = [op |-> "get", id |-> id,
                        outcome |-> IF item = {} THEN "not_found" ELSE "ok",
                        ret |-> item,
                        after_delete |-> /\ last.op = "delete"
                                         /\ last.outcome = "ok"
                                         /\ last.id = id,
                        created |-> IF /\ last.op = "create"
                                       /\ last.outcome = "ok"
                                       /\ last.id = id
                                    THEN last.ret ELSE {}]
            /\ store' = store \ item
            /\ UNCHANGED <<seq, now, assigned, sessions, metrics, inflight>>

\* the get record also keeps what the create right before it returned, when
\* that create made the row with this id
ReadItem ==
    \E id \in Ids :
        LET item == get_item(store, id)
        IN  /\ last' = [op |-> "get", id |-> id,
                        outcome |-> IF item = {} THEN "not_found" ELSE "ok",
                        ret |-> item,
                        after_delete |-> /\ last.op = "delete"
                                         /\ last.outcome = "ok"
                                         /\ last.id = id,
                        created |-> IF /\ last.op = "create"
                                       /\ last.outcome = "ok"
                                       /\ last.id = id
                                    THEN last.ret ELSE {}]
            /\ UNCHANGED <<store, seq, now, assigned, sessions, metrics, inflight>>

----------------------------------------------------------------------------
(* CRUDRepository.update                                                   *)

\* one turn of "for field in obj_data: if field in update_data: setattr(...)"
SetAttr(db_obj, update_data, field) ==
    IF field \in DOMAIN update_data THEN update_data[field] ELSE db_obj[field]

SetAttrs(db_obj, update_data) ==
    ItemRow(SetAttr(db_obj, update_data, "id"),
            SetAttr(db_obj, update_data, "created_at"),
            SetAttr(db_obj, update_data, "updated_at"),
            SetAttr(db_obj, update_data, "name"),
            SetAttr(db_obj, update_data, "description"),
            SetAttr(db_obj, update_data, "is_active"))

\* columns whose value differs from the loaded one: the SET list of the UPDATE
Dirty(db_obj, changed) == {f \in Columns : changed[f] # db_obj[f]}

\* db.add, db.commit, db.refresh.  No UPDATE is emitted when no column
\* changed; onupdate=datetime.utcnow (reading t) fills updated_at when the
\* UPDATE does not set it itself.
update(db, db_obj, update_data, t) ==
    LET changed == SetAttrs(db_obj, update_data)
        dirty == Dirty(db_obj, changed)
        row == IF "updated_at" \in dirty THEN changed
               ELSE [changed EXCEPT !.updated_at = t]
    IN  IF dirty = {}
        THEN [outcome |-> "ok", db |-> db, ret |-> {db_obj}, clock |-> FALSE]
        ELSE IF NotNullOk(changed) /\ PrimaryKeyFree(db \ {db_obj}, changed.id)
        THEN [outcome |-> "ok", db |-> (db \ {db_obj}) \cup {row},
              ret |-> {row}, clock |-> "updated_at" \notin dirty]
        ELSE [outcome |-> "error", db |-> db, ret |-> {}, clock |-> FALSE]

\* PUT /items/{id}: item_service.update_item
update_item(db, id, item_in, t) ==
    LET item == get(db, id)
    IN  IF item = {}
        THEN [outcome |-> "not_found", db |-> db, ret |-> {}, clock |-> FALSE]
        ELSE update(db, CHOOSE r \in item : TRUE, DictExcludeUnset(item_in), t)

UpdateItem(bodies) ==
    \E id \in Ids :
    \E item_in \in bodies :
    \E t \in now..MaxTime :
        LET res == update_item(store, id, item_in, t)
        IN  /\ store' = res.db
            /\ now' = IF res.clock THEN t ELSE now
            /\ last' = [op |-> "update", id |-> id, obj_in |-> item_in,
                        outcome |-> res.outcome, ret |-> res.ret]
            /\ UNCHANGED <<seq, assigned, sessions, metrics, inflight>>

\* a plain dict passed as obj_in: any key, a column or not, with a value of
\* the column's type
DictKeys == Columns \cup {"bogus"}

DictValues(key) ==
    CASE key = "id" -> Ids
      [] key \in {"created_at", "updated_at"} -> Times
      [] key = "name" -> NameOpt
      [] key = "description" -> DescriptionOpt
      [] key = "is_active" -> BoolOpt
      [] OTHER -> {None}

\* repositories.item.update(db, db_obj=<a loaded row>, obj_in=<dict>)
RepoUpdateDict(keys) ==
    \E db_obj \in store :
    \E key \in keys :
    \E v \in DictValues(key) :
    \E t \in now..MaxTime :
        LET obj_in == key :> v
            res == update(store, db_obj, obj_in, t)
        IN  /\ store' = res.db
            /\ now' = IF res.clock THEN t ELSE now
            /\ last' = [op |-> "repo_update", id |-> db_obj.id, obj_in |-> obj_in,
                        outcome |-> res.outcome, ret |-> res.ret]
            /\ UNCHANGED <<seq, assigned, sessions, metrics, inflight>>

----------------------------------------------------------------------------
(* CRUDRepository.remove and DELETE /items/{id}                            *)

\* remove that returns the object without deleting it
remove_without_delete(db, id) ==
    LET obj == get(db, id)
    IN  IF obj = {}
        THEN [outcome |-> "error", db |-> db, ret |-> {}]
        ELSE [outcome |-> "ok", db |-> db, ret |-> obj]

\* a remove that deletes every row of the table
remove_all(db, id) ==
    LET obj == get(db, id)
    IN  IF obj = {}
        THEN [outcome |-> "error", db |-> db, ret |-> {}]
        ELSE [outcome |-> "ok", db |-> {}, ret |-> obj]

\* obj = db.query(model).get(id); db.delete(obj); db.commit(); return obj.
\* For an id that is not stored obj is None and db.delete(None) raises
\* UnmappedInstanceError, an error that is no NotFound: outcome "error".
remove(db, id) ==
    LET obj == get(db, id)
    IN  IF obj = {}
        THEN [outcome |-> "error", db |-> db, ret |-> {}]
        ELSE [outcome |-> "ok", db |-> db \ obj, ret |-> obj]

\* delete_item that calls remove without looking the item up first
delete_item_unguarded(db, id) == remove(db, id)

\* item = repositories.item.get(db, id); if not item: return None;
\* return repositories.item.remove(db, id)
delete_item(db, id) ==
    LET item == get(db, id)
    IN  IF item = {}
        THEN [outcome |-> "not_found", db |-> db, ret |-> {}]
        ELSE remove(db, id)

DeleteItem ==
    \E id \in Ids :
        LET res == delete_item(store, id)
        IN  /\ store' = res.db
            /\ last' = [op |-> "delete", id |-> id,
                        outcome |-> res.outcome, ret |-> res.ret]
            /\ UNCHANGED <<seq, now, assigned, sessions, metrics, inflight>>

----------------------------------------------------------------------------
(* The service: requests to the items endpoints in any order, one at a     *)
(* time, with bodies that set name only.                                   *)

Next ==
    \/ CreateItem(NameOnlyCreate)
    \/ ReadItem
    \/ UpdateItem(NameOnlyUpdate)
    \/ DeleteItem

Spec == Init /\ [][Next]_vars

----------------------------------------------------------------------------
(* update as a function of the stored entity and its input: one stored row *)
(* drawn from every value a row can hold, and one update applied to it     *)
(* with any ItemUpdate body or any one-key dict.                           *)

StoredRows ==
    {ItemRow(id, c, u, Some(n), d, a) :
        id \in Ids, c \in Times, u \in Times, n \in Names,
        d \in DescriptionOpt, a \in BoolOpt}

InitUpdate ==
    \E r \in StoredRows :
        /\ r.created_at <= r.updated_at
        /\ store = {r}
        /\ seq = r.id + 1
        /\ now = r.updated_at
        /\ assigned = 1..r.id
        /\ last = [op |-> "init"]
        /\ sessions = NoSessions
        /\ metrics = NoMetrics
        /\ inflight = NoRequests

UpdateStored == last.op = "init" /\ UpdateItem(ItemUpdate)
UpdateStoredDict == last.op = "init" /\ RepoUpdateDict(DictKeys)

NextUpdate ==
    \/ UpdateStored
    \/ UpdateStoredDict

SpecUpdate == InitUpdate /\ [][NextUpdate]_vars

----------------------------------------------------------------------------
(* CRUDRepository.get_multi and CRUDRepository.filter                      *)

Min(a, b) == IF a < b THEN a ELSE b

\* the orders in which a query without ORDER BY may return its rows
Orderings(rows) ==
    {s \in [1..Cardinality(rows) -> rows] :
        \A i, j \in 1..Cardinality(rows) : i # j => s[i] # s[j]}

\* query.count()
count(query) == Cardinality(query)

\* a window one row too long
WindowOneMore(rows, skip, limit) ==
    SubSeq(rows, skip + 1, Min(Len(rows), skip + limit + 1))

\* a window that forgets the offset
WindowNoSkip(rows, skip, limit) == SubSeq(rows, 1, Min(Len(rows), limit))

\* query.offset(skip).limit(limit).all() over the rows in the order returned
Window(rows, skip, limit) ==
    SubSeq(rows, skip + 1, Min(Len(rows), skip + limit))

\* a negative OFFSET or LIMIT is rejected by the database
WindowOk(skip, limit) == skip >= 0 /\ limit >= 0

\* has_more that forgets the rows skipped
PaginationInfoNoSkip(total, skip, limit) ==
    [total |-> total, skip |-> skip, limit |-> limit,
     has_more |-> (total > limit)]

\* has_more with >= in place of >
PaginationInfoAtLeast(total, skip, limit) ==
    [total |-> total, skip |-> skip, limit |-> limit,
     has_more |-> (total >= skip + limit)]

\* pagination = {"total": total, "skip": skip, "limit": limit,
\*               "has_more": total > skip + limit}
PaginationInfo(total, skip, limit) ==
    [total |-> total, skip |-> skip, limit |-> limit,
     has_more |-> (total > skip + limit)]

\* attributes of the mapped class that are not columns: Item.metadata is the
\* MetaData object of the declarative base
ClassAttributes == {"metadata"}
ClassAttribute(field) == Some(field)

\* hasattr(self.model, field): true of every attribute of the class, a
\* column or not
HasAttr(field) == field \in Columns \cup ClassAttributes

\* the keys of filters that get a condition
KnownFields(filters) == {field \in DOMAIN filters : HasAttr(field)}

\* getattr(self.model, field) == value: a SQL comparison for a column, the
\* Python comparison (a constant true or false) for any other attribute
Condition(row, field, value) ==
    IF field \in Columns THEN row[field] = value
    ELSE ClassAttribute(field) = value

\* or_(*filter_conditions) in place of and_
MatchesAny(row, filters) ==
    \E field \in KnownFields(filters) : Condition(row, field, filters[field])

\* and_(*filter_conditions): the condition of every known key
Matches(row, filters) ==
    \A field \in KnownFields(filters) : Condition(row, field, filters[field])

ApplyFilters(db, filters) == {r \in db : Matches(r, filters)}

\* the tail shared by get_multi and filter: count, window, metadata
Page(query, rows, skip, limit, with_pagination) ==
    IF WindowOk(skip, limit)
    THEN [outcome |-> "ok",
          items |-> Window(rows, skip, limit),
          pagination |-> IF with_pagination
                         THEN {PaginationInfo(count(query), skip, limit)}
                         ELSE {}]
    ELSE [outcome |-> "error", items |-> <<>>, pagination |-> {}]

Windows == (0 - 1)..MaxWindow

get_multi ==
    \E skip \in Windows, limit \in Windows, with_pagination \in BOOLEAN :
        LET query == store
        IN  \E rows \in Orderings(query) :
            LET res == Page(query, rows, skip, limit, with_pagination)
            IN  /\ last' = [op |-> "list", filters |-> <<>>,
                            skip |-> skip, limit |-> limit,
                            with_pagination |-> with_pagination,
                            outcome |-> res.outcome, items |-> res.items,
                            pagination |-> res.pagination]
                /\ UNCHANGED <<store, seq, now, assigned, sessions, metrics, inflight>>

\* filters: any keys among name, is_active and an unknown key
FilterValues == [name |-> {Some(n) : n \in Names},
                 is_active |-> BoolOpt,
                 bogus |-> {None}]

Filters ==
    {[k \in D |-> f[k]] :
        f \in [name : FilterValues.name, is_active : FilterValues.is_active,
               bogus : FilterValues.bogus],
        D \in SUBSET {"name", "is_active", "bogus"}}

\* filters whose keys name no column: a key that is no attribute of the
\* class, and one that is an attribute but not a column
UnknownKeyFilters ==
    {[k \in D |-> None] : D \in (SUBSET {"bogus", "metadata"}) \ {{}}}

filter(filtersets) ==
    \E filters \in filtersets :
    \E skip \in Windows, limit \in Windows, with_pagination \in BOOLEAN :
        LET query == ApplyFilters(store, filters)
        IN  \E rows \in Orderings(query) :
            LET res == Page(query, rows, skip, limit, with_pagination)
            IN  /\ last' = [op |-> "filter", filters |-> filters,
                            skip |-> skip, limit |-> limit,
                            with_pagination |-> with_pagination,
                            outcome |-> res.outcome, items |-> res.items,
                            pagination |-> res.pagination]
                /\ UNCHANGED <<store, seq, now, assigned, sessions, metrics, inflight>>

\* the stores queried: any rows with distinct ids
QueryStores ==
    UNION {{{ItemRow(i, 0, 0, p[i].name, None, p[i].is_active) : i \in D} :
               p \in [D -> [name : {Some(n) : n \in Names}, is_active : BoolOpt]]} :
           D \in SUBSET Ids}

InitQuery ==
    /\ store \in QueryStores
    /\ seq = MaxId + 1
    /\ now = 0
    /\ assigned = Ids
    /\ last = [op |-> "init"]
    /\ sessions = NoSessions
    /\ metrics = NoMetrics
    /\ inflight = NoRequests

ListStored == last.op = "init" /\ get_multi
FilterStored == last.op = "init" /\ filter(Filters)

NextQuery ==
    \/ ListStored
    \/ FilterStored

SpecQuery == InitQuery /\ [][NextQuery]_vars

\* item_service.get_items: "if filters:" sends a non-empty dict to filter,
\* an empty or missing one (both falsy) to get_multi
\* get_multi called whatever the filters are
AlwaysGetMulti(filters) == "get_multi"

\* the repository method get_items calls
Delegate(filters) == IF filters # <<>> THEN "filter" ELSE "get_multi"

get_items(filtersets) ==
    \E filters \in filtersets :
    \E skip \in Windows, limit \in Windows, with_pagination \in BOOLEAN :
        LET called == Delegate(filters)
            query == IF called = "filter" THEN ApplyFilters(store, filters)
                     ELSE store
        IN  \E rows \in Orderings(query) :
            LET res == Page(query, rows, skip, limit, with_pagination)
            IN  /\ last' = [op |-> "get_items", filters |-> filters,
                            called |-> called,
                            skip |-> skip, limit |-> limit,
                            with_pagination |-> with_pagination,
                            outcome |-> res.outcome, items |-> res.items,
                            pagination |-> res.pagination]
                /\ UNCHANGED <<store, seq, now, assigned, sessions, metrics, inflight>>

\* GET /items: the service called with any filters dict, the empty one
\* included
GetItemsStored == last.op = "init" /\ get_items(Filters)

NextGetItems == GetItemsStored

SpecGetItems == InitQuery /\ [][NextGetItems]_vars

\* the read operations on the same stores: get, list and filter
GetStored == last.op = "init" /\ ReadItem

NextReads ==
    \/ GetStored
    \/ ListStored
    \/ FilterStored

SpecReads == InitQuery /\ [][NextReads]_vars

\* the same stores, listed and filtered by keys that name no column
FilterUnknownKeys == last.op = "init" /\ filter(UnknownKeyFilters)

NextUnknownKeys ==
    \/ ListStored
    \/ FilterUnknownKeys

SpecUnknownKeys == InitQuery /\ [][NextUnknownKeys]_vars

----------------------------------------------------------------------------
(* The repository called directly: create, and remove with any id, stored  *)
(* or not.                                                                 *)

\* repositories.item.remove(db, id=id)
RepoRemove ==
    \E id \in Ids :
        LET res == remove(store, id)
        IN  /\ store' = res.db
            /\ last' = [op |-> "repo_remove", id |-> id,
                        outcome |-> res.outcome, ret |-> res.ret]
            /\ UNCHANGED <<seq, now, assigned, sessions, metrics, inflight>>

NextRepository ==
    \/ CreateItem(NameOnlyCreate)
    \/ RepoRemove

SpecRepository == Init /\ [][NextRepository]_vars

\* create, update with a dict that sets id or name, and remove, in any order
NextFrame ==
    \/ CreateItem(NameOnlyCreate)
    \/ RepoUpdateDict({"id", "name"})
    \/ RepoRemove

SpecFrame == Init /\ [][NextFrame]_vars

----------------------------------------------------------------------------
(* Seeding: init_db (app/db/init_db.py), run any number of times on a      *)
(* table that requests create items in and delete items from, items named  *)
(* "Test Item" among them.                                                 *)

\* schemas.ItemCreate(name="Test Item", description="This is a test item",
\*                    is_active=True)
TestItemIn ==
    [values |-> [name |-> Some("Test Item"),
                 description |-> Some("This is a test item"),
                 is_active |-> Some(TRUE)],
     fields_set |-> DomainFields]

\* a lookup that compares the description with the name given
get_by_description(db, name) ==
    LET found == {r \in db : r.description = Some(name)}
    IN  IF found = {} THEN {} ELSE {CHOOSE r \in found : TRUE}

\* db.query(model).filter(model.name == name).first()
get_by_name(db, name) ==
    LET found == {r \in db : r.name = Some(name)}
    IN  IF found = {} THEN {} ELSE {CHOOSE r \in found : TRUE}

\* init_db(db): create the test item unless get_by_name finds one
InitDb ==
    LET item == get_by_name(store, "Test Item")
    IN  IF item # {}
        THEN /\ last' = [op |-> "init_db", created |-> FALSE, outcome |-> "ok"]
             /\ UNCHANGED <<store, seq, now, assigned, sessions, metrics, inflight>>
        ELSE /\ seq <= MaxId
             /\ \E c \in now..MaxTime :
                \E u \in c..MaxTime :
                   LET id == NextVal(seq, store)
                       res == create(store, id, TestItemIn, c, u)
                   IN  /\ store' = res.db
                       /\ seq' = seq + 1
                       /\ now' = u
                       /\ assigned' = IF res.outcome = "ok"
                                      THEN assigned \cup {id} ELSE assigned
                       /\ last' = [op |-> "init_db", created |-> TRUE,
                                   outcome |-> res.outcome]
                       /\ UNCHANGED <<sessions, metrics, inflight>>

\* POST bodies that name the item "a" or "Test Item"
SeedCreate ==
    {[values |-> [name |-> Some(n), description |-> None, is_active |-> Some(TRUE)],
      fields_set |-> {"name"}] : n \in {"a", "Test Item"}}

NextSeed ==
    \/ InitDb
    \/ CreateItem(SeedCreate)
    \/ DeleteItem

SpecSeed == Init /\ [][NextSeed]_vars

----------------------------------------------------------------------------
(* The service with request bodies that set is_active: POST with name "a"  *)
(* and is_active given or left to its default, PUT with is_active alone    *)
(* (true, false or null), DELETE.                                          *)

ActiveCreate ==
    {o \in ItemCreate : /\ o.fields_set \subseteq {"name", "is_active"}
                        /\ o.values.name = Some("a")}

ActiveUpdate == {o \in ItemUpdate : o.fields_set = {"is_active"}}

NextActive ==
    \/ CreateItem(ActiveCreate)
    \/ UpdateItem(ActiveUpdate)
    \/ DeleteItem

SpecActive == Init /\ [][NextActive]_vars

----------------------------------------------------------------------------
(* The feature-based items controller (src/features/items): GET            *)
(* /items/{item_id}.  The lookup either works or fails with a storage      *)
(* error (storage_up).                                                     *)

\* items_service.get_item: session.get(Item, item_id), the row or nothing
items_service_get_item(db, item_id) == {r \in db : r.id = item_id}

\* f"Item with ID {item_id} not found."
NotFoundDetail(item_id) == "Item with ID " \o ToString(item_id) \o " not found."

InternalErrorDetail == "An internal error occurred while retrieving the item."

\* the try block: what it returns or raises
TryGetSingleItem(db, item_id, storage_up) ==
    IF ~storage_up
    THEN [raised |-> "Exception", status |-> 0, detail |-> "", ret |-> {}]
    ELSE LET item == items_service_get_item(db, item_id)
         IN  IF item = {}
             THEN [raised |-> "HTTPException", status |-> 404,
                   detail |-> NotFoundDetail(item_id), ret |-> {}]
             ELSE [raised |-> "none", status |-> 200, detail |-> "", ret |-> item]

\* the handler with the "except Exception" clause alone
get_single_item_catch_all(db, item_id, storage_up) ==
    LET try == TryGetSingleItem(db, item_id, storage_up)
    IN  IF try.raised = "none" THEN try
        ELSE [raised |-> "HTTPException", status |-> 500,
              detail |-> InternalErrorDetail, ret |-> {}]

\* the except clauses in order: "except HTTPException: raise", then
\* "except Exception" raising the 500
get_single_item(db, item_id, storage_up) ==
    LET try == TryGetSingleItem(db, item_id, storage_up)
    IN  IF try.raised = "none" THEN try
        ELSE IF try.raised = "HTTPException" THEN try
        ELSE [raised |-> "HTTPException", status |-> 500,
              detail |-> InternalErrorDetail, ret |-> {}]

GetSingleItem ==
    \E item_id \in Ids, storage_up \in BOOLEAN :
        LET res == get_single_item(store, item_id, storage_up)
        IN  /\ last' = [op |-> "get_single_item", id |-> item_id,
                        storage_up |-> storage_up, status |-> res.status,
                        detail |-> res.detail, ret |-> res.ret]
            /\ UNCHANGED <<store, seq, now, assigned, sessions, metrics, inflight>>

GetSingleStored == last.op = "init" /\ GetSingleItem

NextFeature == GetSingleStored

SpecFeature == InitQuery /\ [][NextFeature]_vars

----------------------------------------------------------------------------
(* The storage session of a unit of work.  A request gets its session from *)
(* the dependency get_db (db = SessionLocal(); try: yield db; finally:     *)
(* db.close()); the initialisation script init() follows the same shape    *)
(* around init_db(db).  The body run with the session, an endpoint or      *)
(* init_db, returns ("ok"), raises HTTPException ("not_found", endpoints   *)
(* only) or raises another exception ("error").                            *)

Bodies(kind) ==
    IF kind = "request" THEN {"ok", "not_found", "error"} ELSE {"ok", "error"}

\* db = SessionLocal()
SessionLocal(u) ==
    /\ sessions[u].pc = "idle"
    /\ \E kind \in {"request", "init"} :
        sessions' = [sessions EXCEPT ![u] = [kind |-> kind, pc |-> "yielded",
                                             session |-> "open",
                                             outcome |-> "none"]]
    /\ UNCHANGED <<store, seq, now, assigned, last, metrics, inflight>>

\* "yield db" / "init_db(db)": the body runs and returns or raises
RunBody(u) ==
    /\ sessions[u].pc = "yielded"
    /\ \E outcome \in Bodies(sessions[u].kind) :
        sessions' = [sessions EXCEPT ![u].pc = "body_done",
                                     ![u].outcome = outcome]
    /\ UNCHANGED <<store, seq, now, assigned, last, metrics, inflight>>

\* db.close() after the body, skipped when the body raised
CloseOnReturn(session, outcome) ==
    IF outcome = "ok" THEN "closed" ELSE session

\* "finally: db.close()": runs however the body ended
Finally(session, outcome) == "closed"

\* the unit leaves get_db / init
Exit(u) ==
    /\ sessions[u].pc = "body_done"
    /\ sessions' = [sessions EXCEPT
                       ![u].pc = "finished",
                       ![u].session = Finally(sessions[u].session,
                                              sessions[u].outcome)]
    /\ UNCHANGED <<store, seq, now, assigned, last, metrics, inflight>>

NextSessions ==
    \/ \E u \in Units : SessionLocal(u)
    \/ \E u \in Units : RunBody(u)
    \/ \E u \in Units : Exit(u)

SpecSessions == Init /\ [][NextSessions]_vars

----------------------------------------------------------------------------
(* RestClient (app/core/rest_client.py): request and the verbs that call   *)
(* it.  The transport either fails (httpx.RequestError) or hands back a    *)
(* response: a status code and a body that is empty, parses into the       *)
(* response model ("model") or does not ("other").                         *)

Methods == {"GET", "POST", "PUT", "PATCH", "DELETE"}
StatusCodes == {200, 204, 301, 404, 500}
Contents == {"", "model", "other"}
Responses == [status_code : StatusCodes, content : Contents]

ReasonPhrase(status_code) ==
    CASE status_code = 200 -> "OK"
      [] status_code = 204 -> "No Content"
      [] status_code = 301 -> "Moved Permanently"
      [] status_code = 404 -> "Not Found"
      [] status_code = 500 -> "Internal Server Error"

\* response.raise_for_status() passes for a 2xx status and raises
\* httpx.HTTPStatusError for any other
IsSuccess(status_code) == status_code \in 200..299

RestClientError(message, status_code, response) ==
    [raised |-> "RestClientError", message |-> message,
     status_code |-> status_code, response |-> response,
     returned |-> "nothing", value |-> {}]

Returned(kind, value) ==
    [raised |-> "none", message |-> "", status_code |-> None, response |-> {},
     returned |-> kind, value |-> value]

\* the rest of _handle_response, after the status check
ParseResponse(response, with_model) ==
    IF ~with_model THEN Returned("raw", {response})
    ELSE IF response.content = "" THEN Returned("none", {})
    ELSE IF response.content = "model" THEN Returned("parsed", {response.content})
    ELSE RestClientError("Failed to parse response", None, {})

\* _handle_response without the status check
handle_response_unchecked(response, with_model) ==
    ParseResponse(response, with_model)

\* RestClient._handle_response
handle_response(response, with_model) ==
    IF ~IsSuccess(response.status_code)
    THEN RestClientError("HTTP error: " \o ToString(response.status_code)
                            \o " " \o ReasonPhrase(response.status_code),
                         Some(response.status_code), {response})
    ELSE ParseResponse(response, with_model)

\* RestClient.request: "except httpx.RequestError" wraps a transport failure;
\* a RestClientError raised by _handle_response passes through it
request(method, response, transport_ok, with_model) ==
    IF ~transport_ok THEN RestClientError("Request error", None, {})
    ELSE handle_response(response, with_model)

\* client.get / post / put / patch / delete: self.request(<METHOD>, ...)
RestRequest ==
    \E method \in Methods, response \in Responses,
       transport_ok \in BOOLEAN, with_model \in BOOLEAN :
        /\ last' = [op |-> "request", method |-> method,
                    transport_ok |-> transport_ok, response |-> response,
                    with_model |-> with_model,
                    result |-> request(method, response, transport_ok, with_model)]
        /\ UNCHANGED <<store, seq, now, assigned, sessions, metrics, inflight>>

NextRestClient == RestRequest

SpecRestClient == Init /\ [][NextRestClient]_vars

----------------------------------------------------------------------------
(* Metrics middleware (app/core/metrics.py).  A request enters the         *)
(* middleware, waits in "await call_next(request)" while other requests    *)
(* run, and leaves it when call_next returns a response or raises.  The    *)
(* two metric calls follow call_next without an await between them, so     *)
(* they are one step.                                                      *)

\* what "await call_next(request)" ends with: a response of the handler
\* chain (HTTPException is turned into a response inside it), or the
\* exception of a handler that nobody caught; GET /metrics answers 200
CallNext(path) ==
    IF path = "/metrics"
    THEN {[kind |-> "response", status_code |-> 200]}
    ELSE {[kind |-> "response", status_code |-> c] : c \in {200, 404}}
         \cup {[kind |-> "raised"]}

\* a middleware that records every path
RecordedAlways(path) == TRUE

\* if path == "/metrics": return await call_next(request)
Recorded(path) == path # "/metrics"

\* REQUEST_LATENCY.labels(method, endpoint).observe(...);
\* REQUEST_COUNT.labels(method, endpoint, status_code).inc()
Record(m, method, path, status_code) ==
    LET l == [method |-> method, endpoint |-> path]
        c == [method |-> method, endpoint |-> path,
              status_code |-> status_code]
    IN  [m EXCEPT !.latency[l] = @ + 1, !.count[c] = @ + 1]

\* the request reaches "await call_next(request)"
Dispatch(q) ==
    /\ metrics.requests[q].pc = "new"
    /\ \E method \in HttpMethods, path \in Paths :
        metrics' = [metrics EXCEPT
                       !.requests[q] = [pc |-> "call_next",
                                        method |-> method, path |-> path]]
    /\ UNCHANGED <<store, seq, now, assigned, last, sessions, inflight>>

\* call_next ends; the lines after it run when it returned a response
Respond(q) ==
    /\ metrics.requests[q].pc = "call_next"
    /\ LET req == metrics.requests[q]
       IN  \E result \in CallNext(req.path) :
            LET done == [metrics EXCEPT
                            !.requests[q] = [pc |-> "done",
                                             method |-> req.method,
                                             path |-> req.path,
                                             result |-> result]]
            IN  metrics' =
                    IF result.kind = "response" /\ Recorded(req.path)
                    THEN Record(done, req.method, req.path,
                                result.status_code)
                    ELSE done
    /\ UNCHANGED <<store, seq, now, assigned, last, sessions, inflight>>

NextMetrics ==
    \/ \E q \in Requests : Dispatch(q)
    \/ \E q \in Requests : Respond(q)

SpecMetrics == Init /\ [][NextMetrics]_vars

----------------------------------------------------------------------------
(* Requests that overlap.  Each request has its own session (get_db); the  *)
(* object the service's get step loads stays in that session's identity    *)
(* map until the session commits, so the repository step that follows      *)
(* works on it while other requests may have changed or deleted the row.   *)
(* The transaction is PostgreSQL's default READ COMMITTED: a statement     *)
(* sees what other sessions committed before it.  A step is the get of     *)
(* the service, or the repository call with its commit.                    *)

\* rows stored before the requests arrive
ConcurrentStores ==
    {{ItemRow(i, 0, 0, Some("a"), None, Some(TRUE)) : i \in D} :
        D \in (SUBSET Ids) \ {{}}}

InitConcurrent ==
    /\ store \in ConcurrentStores
    /\ seq = MaxId + 1
    /\ now = 0
    /\ assigned = Ids
    /\ last = [op |-> "init"]
    /\ sessions = NoSessions
    /\ metrics = NoMetrics
    /\ inflight = NoRequests

\* CRUDRepository.remove in a session whose identity map holds loaded:
\* db.query(model).get(id) returns the loaded object without a SELECT;
\* the DELETE of the commit removes the row if it is still there and only
\* warns when it matches no row (confirm_deleted_rows); obj is returned
session_remove(db, loaded, id) ==
    LET obj == IF loaded # {} THEN loaded ELSE get(db, id)
    IN  IF obj = {}
        THEN [outcome |-> "error", db |-> db, ret |-> {}]
        ELSE [outcome |-> "ok", db |-> db \ get(db, id), ret |-> obj]

\* an update that writes its object back whether or not the row is there
session_update_merge(db, db_obj, update_data, t) ==
    LET changed == SetAttrs(db_obj, update_data)
        row == [changed EXCEPT !.updated_at = t]
    IN  [outcome |-> "ok", db |-> (db \ get(db, db_obj.id)) \cup {row},
         ret |-> {row}, clock |-> TRUE]

\* CRUDRepository.update on an object loaded earlier in the session: the
\* UPDATE sets the columns that differ from the loaded values (and
\* updated_at) in the row with the object's id, and raises StaleDataError
\* when it matches no row; with nothing to set, db.refresh raises
\* InvalidRequestError when the row is gone; db.refresh returns the row as
\* stored
session_update(db, db_obj, update_data, t) ==
    LET changed == SetAttrs(db_obj, update_data)
        dirty == Dirty(db_obj, changed)
        current == get(db, db_obj.id)
    IN  IF current = {}
        THEN [outcome |-> "error", db |-> db, ret |-> {}, clock |-> FALSE]
        ELSE IF dirty = {}
        THEN [outcome |-> "ok", db |-> db, ret |-> current, clock |-> FALSE]
        ELSE LET cur == CHOOSE r \in current : TRUE
                 set == [f \in Columns |->
                            IF f \in dirty THEN changed[f] ELSE cur[f]]
                 row == IF "updated_at" \in dirty THEN set
                        ELSE [set EXCEPT !.updated_at = t]
             IN  IF NotNullOk(row) /\ PrimaryKeyFree(db \ current, row.id)
                 THEN [outcome |-> "ok", db |-> (db \ current) \cup {row},
                       ret |-> {row}, clock |-> "updated_at" \notin dirty]
                 ELSE [outcome |-> "error", db |-> db, ret |-> {},
                       clock |-> FALSE]

\* the first line of delete_item / update_item:
\* item = repositories.item.get(db, id); if not item: return None
ServiceGet(u) ==
    /\ inflight[u].pc = "idle"
    /\ \E op \in {"delete", "update"}, id \in Ids, item_in \in NameOnlyUpdate :
        /\ op = "delete" => item_in.fields_set = {}
        /\ LET item == get(store, id)
           IN  inflight' = [inflight EXCEPT ![u] =
                   [pc |-> IF item = {} THEN "done" ELSE "loaded",
                    op |-> op, id |-> id, item_in |-> item_in,
                    loaded |-> item,
                    outcome |-> IF item = {} THEN "not_found" ELSE "none",
                    ret |-> {}]]
    /\ UNCHANGED <<store, seq, now, assigned, last, sessions, metrics>>

\* the last line of delete_item: return repositories.item.remove(db, id)
RemoveLoaded(u) ==
    /\ inflight[u].pc = "loaded"
    /\ inflight[u].op = "delete"
    /\ LET res == session_remove(store, inflight[u].loaded, inflight[u].id)
       IN  /\ store' = res.db
           /\ inflight' = [inflight EXCEPT ![u].pc = "done",
                                           ![u].outcome = res.outcome,
                                           ![u].ret = res.ret]
    /\ UNCHANGED <<seq, now, assigned, last, sessions, metrics>>

\* the last line of update_item:
\* return repositories.item.update(db, db_obj=item, obj_in=item_in)
UpdateLoaded(u) ==
    /\ inflight[u].pc = "loaded"
    /\ inflight[u].op = "update"
    /\ \E t \in now..MaxTime :
        LET res == session_update(store,
                                  CHOOSE r \in inflight[u].loaded : TRUE,
                                  DictExcludeUnset(inflight[u].item_in), t)
        IN  /\ store' = res.db
            /\ now' = IF res.clock THEN t ELSE now
            /\ inflight' = [inflight EXCEPT ![u].pc = "done",
                                            ![u].outcome = res.outcome,
                                            ![u].ret = res.ret]
    /\ UNCHANGED <<seq, assigned, last, sessions, metrics>>

NextConcurrent ==
    \/ \E u \in Units : ServiceGet(u)
    \/ \E u \in Units : RemoveLoaded(u)
    \/ \E u \in Units : UpdateLoaded(u)

SpecConcurrent == InitConcurrent /\ [][NextConcurrent]_vars

----------------------------------------------------------------------------
(* Properties                                                              *)

IsUpdate(o) == o.op \in {"update", "repo_update"}

\* the keys an update's input carries, and the value it gives a key
Carried(o) == IF o.op = "update" THEN o.obj_in.fields_set ELSE DOMAIN o.obj_in
InputValue(o, f) == IF o.op = "update" THEN o.obj_in.values[f] ELSE o.obj_in[f]

\* the rows every known key of the filters equals
MatchingRecords(filters) ==
    {r \in store : \A k \in DOMAIN filters \cap Columns : r[k] = filters[k]}

\* the records filter returns for a window that holds every match
FilterAll(db, filters) ==
    LET query == ApplyFilters(db, filters)
        rows == CHOOSE s \in Orderings(query) : TRUE
        res == Page(query, rows, 0, count(query), FALSE)
    IN  {res.items[i] : i \in 1..Len(res.items)}

Max(a, b) == IF a > b THEN a ELSE b

\* C1: a get_item(id) issued right after a delete_item(id) that returned the
\* deleted entity finds nothing, and GET /items/{id} answers 404, whatever
\* creates, updates and deletes came before.
C1_GetAfterDeleteIsAbsent ==
    (last.op = "get" /\ last.after_delete) =>
        /\ last.ret = {}
        /\ last.outcome = "not_found"
        /\ HttpStatus(last.outcome) = 404

\* a get right after a successful delete of the same id, with another row
\* still stored
C1_Witness ==
    /\ last.op = "get"
    /\ last.after_delete
    /\ store # {}

\* C2: an update that succeeds gives every domain field its input carries the
\* input's value and leaves every domain field it does not carry as it was.
C2_UpdateWritesOnlyCarriedFields ==
    [][(IsUpdate(last') /\ last'.outcome = "ok") =>
          \A before \in get(store, last'.id) :
          \A after \in last'.ret :
          \A f \in DomainFields :
              IF f \in Carried(last')
              THEN after[f] = InputValue(last', f)
              ELSE after[f] = before[f]]_vars

\* a body carrying name only, applied to a row whose description and
\* is_active differ from the schema's defaults
C2_Witness ==
    /\ last.op = "update"
    /\ last.outcome = "ok"
    /\ last.obj_in.fields_set = {"name"}
    /\ \E r \in last.ret :
        /\ r.name = last.obj_in.values.name
        /\ r.description = Some("d")
        /\ r.is_active = Some(FALSE)

\* C3: every update that succeeds leaves updated_at strictly greater than it
\* was before the update.
C3_UpdatedAtStrictlyIncreases ==
    [][(last'.op = "update" /\ last'.outcome = "ok" /\ last' # last) =>
          \A before \in get(store, last'.id) :
          \A after \in last'.ret :
              after.updated_at > before.updated_at]_vars

\* C4: the entity create returns has an id and equal created_at and
\* updated_at.
C4_CreatedAtEqualsUpdatedAt ==
    (last.op = "create" /\ last.outcome = "ok") =>
        \A r \in last.ret : r.id \in Nat /\ r.created_at = r.updated_at

\* C5: every stored entity has updated_at >= created_at.
C5_UpdatedNotBeforeCreated ==
    \A r \in store : r.updated_at >= r.created_at

C7_IdImmutable ==
    (IsUpdate(last) /\ last.outcome = "ok") =>
        \A r \in last.ret : r.id = last.id

C9_TotalCountsMatchingRecords ==
    (last.op \in {"list", "filter"} /\ last.with_pagination /\ last.outcome = "ok") =>
        last.pagination =
            {[total |-> Cardinality(MatchingRecords(last.filters)),
              skip |-> last.skip, limit |-> last.limit,
              has_more |-> (Cardinality(MatchingRecords(last.filters))
                               > last.skip + last.limit)]}

\* a filter that keeps some rows and drops others, with a window that starts
\* past the first match and returns fewer rows than total
C9_Witness ==
    /\ last.op = "filter"
    /\ last.with_pagination
    /\ last.outcome = "ok"
    /\ last.skip >= 1
    /\ MatchingRecords(last.filters) # {}
    /\ MatchingRecords(last.filters) # store
    /\ \E p \in last.pagination : p.total > Len(last.items)

\* C10: filter returns only stored rows in which every named column equals
\* the value given for it.
C10_FilterReturnsOnlyMatches ==
    (last.op = "filter" /\ last.outcome = "ok") =>
        \A i \in 1..Len(last.items) :
            /\ last.items[i] \in store
            /\ \A k \in DOMAIN last.filters \cap Columns :
                   last.items[i][k] = last.filters[k]

\* a filter on name and is_active that returns a row and leaves out a row
\* matching one of the two only
C10_Witness ==
    /\ last.op = "filter"
    /\ last.outcome = "ok"
    /\ {"name", "is_active"} \subseteq DOMAIN last.filters
    /\ Len(last.items) >= 1
    /\ \E r \in store :
        /\ r \notin MatchingRecords(last.filters)
        /\ \/ r.name = last.filters["name"]
           \/ r.is_active = last.filters["is_active"]

\* C11: in every state of the store, filter({is_active: true}) and
\* filter({is_active: false}) return disjoint sets of records that together
\* are all the stored records.
C11_ActiveFiltersPartitionStore ==
    LET active == FilterAll(store, [is_active |-> Some(TRUE)])
        inactive == FilterAll(store, [is_active |-> Some(FALSE)])
    IN  /\ active \cap inactive = {}
        /\ active \cup inactive = store

\* C12: a filter whose keys all name no field of the entity raises no error
\* and returns what list returns for the same skip and limit: the same
\* records, total and has_more.
C12_UnknownKeysIgnored ==
    (last.op = "filter" /\ DOMAIN last.filters \cap Columns = {}) =>
        \E rows \in Orderings(store) :
            LET listed == Page(store, rows, last.skip, last.limit,
                               last.with_pagination)
            IN  /\ last.outcome = listed.outcome
                /\ last.items = listed.items
                /\ last.pagination = listed.pagination

\* C13: remove(id) with an id no stored record has fails with a
\* NotFound-class error, returns nothing and leaves the store unchanged.
C13_RemoveMissingIsNotFound ==
    [][(last'.op = "repo_remove" /\ get(store, last'.id) = {}) =>
          /\ last'.outcome = "not_found"
          /\ last'.ret = {}
          /\ store' = store]_vars

\* C14: for an id no stored record has, get_item, update_item and delete_item
\* return the absence value and leave the store unchanged, and the endpoint
\* answers 404.  (Had the service called update or remove for the missing
\* item, the call would have raised and the outcome would be an error.)
C14_AbsentIdIsNotFound ==
    [][(last'.op \in {"get", "update", "delete"} /\ get(store, last'.id) = {}) =>
          /\ last'.outcome = "not_found"
          /\ last'.ret = {}
          /\ store' = store
          /\ HttpStatus(last'.outcome) = 404]_vars

\* a DELETE of an id that is not stored, while another item is
C14_Witness ==
    /\ last.op = "delete"
    /\ last.outcome = "not_found"
    /\ last.ret = {}
    /\ store # {}

\* C16: every stored item has a name that is a non-empty string.
C16_NameNonEmpty ==
    \A r \in store : r.name # None /\ r.name # Some("")

\* C17: an update whose input carries description set to null stores null in
\* description; an update whose input does not carry description leaves the
\* stored description as it was.
C17_NullIsNotAbsent ==
    [][(last'.op = "update" /\ last'.outcome = "ok") =>
          \A before \in get(store, last'.id) :
          \A after \in get(store', last'.id) :
              /\ ("description" \in last'.obj_in.fields_set
                     /\ last'.obj_in.values.description = None)
                    => after.description = None
              /\ "description" \notin last'.obj_in.fields_set
                    => after.description = before.description]_vars

\* a body carrying description: null and nothing else, stored as null in a
\* row whose is_active is not the schema's default
C17_Witness ==
    /\ last.op = "update"
    /\ last.outcome = "ok"
    /\ last.obj_in.fields_set = {"description"}
    /\ last.obj_in.values.description = None
    /\ \E r \in store :
        /\ r.id = last.id
        /\ r.description = None
        /\ r.is_active = Some(FALSE)

\* C18: a get by the id a create just returned yields the entity the create
\* returned, identical in every field.
C18_CreateGetRoundTrip ==
    (last.op = "get" /\ last.created # {}) =>
        /\ last.outcome = "ok"
        /\ last.ret = last.created

\* a get right after the create of a second row whose two timestamps differ
C18_Witness ==
    /\ last.op = "get"
    /\ last.created # {}
    /\ Cardinality(store) = 2
    /\ \E r \in last.ret : r.created_at # r.updated_at

\* C19: get, list and filter leave the stored records and all their field
\* values as they were.
C19_ReadsLeaveStoreUnchanged ==
    [][last'.op \in {"get", "list", "filter"} => store' = store]_vars

\* a get that found its row in a table of two
C19_Witness ==
    /\ last.op = "get"
    /\ last.outcome = "ok"
    /\ last.ret # {}
    /\ Cardinality(store) = 2

\* C20: in the feature-based controller, GET /items/{item_id} for an id that
\* is not stored answers 404 with detail "Item with ID {item_id} not found.",
\* never the 500 of the catch-all handler.
C20_FeatureGetMissingIs404 ==
    (/\ last.op = "get_single_item"
     /\ last.storage_up
     /\ \A r \in store : r.id # last.id) =>
        /\ last.status = 404
        /\ last.detail = "Item with ID " \o ToString(last.id) \o " not found."
        /\ last.detail # InternalErrorDetail

\* a GET of id 2 answered 404 while item 1 is stored
C20_Witness ==
    /\ last.op = "get_single_item"
    /\ last.id = 2
    /\ last.status = 404
    /\ last.detail = "Item with ID 2 not found."
    /\ \E r \in store : r.id = 1

\* C15: no session remains open after its unit of work has finished, whether
\* the body returned or raised; and a session is open only while its unit
\* is between SessionLocal() and the exit.
C15_SessionReleased ==
    \A u \in Units :
        /\ sessions[u].pc = "finished" => sessions[u].session = "closed"
        /\ sessions[u].session = "open" =>
               sessions[u].pc \in {"yielded", "body_done"}

\* a request whose handler raised has finished with its session closed while
\* another unit still holds its session
C15_Witness ==
    \E u, v \in Units :
        /\ sessions[u].kind = "request"
        /\ sessions[u].pc = "finished"
        /\ sessions[u].outcome = "error"
        /\ sessions[u].session = "closed"
        /\ sessions[v].session = "open"

\* C21: whenever the transport hands back a response whose status check
\* fails, every verb raises RestClientError carrying the response's status
\* code and the response itself, and returns nothing.
C21_HttpErrorRaisesRestClientError ==
    (/\ last.op = "request"
     /\ last.transport_ok
     /\ last.response.status_code \notin 200..299) =>
        /\ last.result.raised = "RestClientError"
        /\ last.result.status_code = Some(last.response.status_code)
        /\ last.result.response = {last.response}
        /\ last.result.returned = "nothing"
        /\ last.result.value = {}

\* the case of the test: a GET with a response model answered 404
C21_Witness ==
    /\ last.op = "request"
    /\ last.method = "GET"
    /\ last.with_model
    /\ last.transport_ok
    /\ last.response.status_code = 404
    /\ last.result.raised = "RestClientError"
    /\ last.result.message = "HTTP error: 404 Not Found"

C23_HasMoreAccurate ==
    (/\ last.op \in {"list", "filter"}
     /\ last.with_pagination
     /\ last.skip >= 0 /\ last.limit >= 0) =>
        /\ last.pagination # {}
        /\ \A p \in last.pagination :
              p.has_more <=> (last.skip + Len(last.items) < p.total)

\* a full page with a record left beyond it
C23_Witness ==
    /\ last.op = "list"
    /\ last.with_pagination
    /\ last.limit >= 1
    /\ Len(last.items) = last.limit
    /\ \E p \in last.pagination : p.has_more /\ p.total = Cardinality(store)

\* C28: get_items calls filter exactly when the filters are non-empty and
\* get_multi otherwise, and either way returns what filter returns for those
\* filters; so with empty or missing filters it returns what filter with an
\* empty filter set returns: the same items, total, skip, limit and has_more.
C28_GetItemsDelegates ==
    (last.op = "get_items") =>
        /\ last.called = "filter" <=> last.filters # <<>>
        /\ LET query == ApplyFilters(store, last.filters)
           IN  \E rows \in Orderings(query) :
                   LET filtered == Page(query, rows, last.skip, last.limit,
                                        last.with_pagination)
                   IN  /\ last.outcome = filtered.outcome
                       /\ last.items = filtered.items
                       /\ last.pagination = filtered.pagination

\* get_items without filters returning a page with its metadata
C28_Witness ==
    /\ last.op = "get_items"
    /\ last.filters = <<>>
    /\ last.called = "get_multi"
    /\ last.with_pagination
    /\ last.outcome = "ok"
    /\ Len(last.items) >= 1
    /\ last.pagination # {}

\* C26: create adds exactly one new record and leaves the others as they
\* were; update changes no record but the one passed to it; remove(id)
\* deletes exactly the record with that id; a call that fails changes
\* nothing.
C26_OnlyTargetChanges ==
    [][/\ (last'.op = "create" /\ last'.outcome = "ok") =>
              /\ Cardinality(last'.ret) = 1
              /\ last'.ret \cap store = {}
              /\ store' = store \cup last'.ret
       /\ (last'.op = "repo_update" /\ last'.outcome = "ok") =>
              /\ Cardinality(last'.ret) = 1
              /\ store' \ last'.ret = store \ get(store, last'.id)
              /\ Cardinality(store') = Cardinality(store)
       /\ (last'.op = "repo_remove" /\ last'.outcome = "ok") =>
              /\ last'.ret = get(store, last'.id)
              /\ store' = store \ last'.ret
       /\ (last'.op \in {"create", "repo_update", "repo_remove"}
              /\ last'.outcome # "ok") => store' = store]_vars

\* a remove that took one record out of two and left the other
C26_Witness ==
    /\ last.op = "repo_remove"
    /\ last.outcome = "ok"
    /\ Cardinality(store) = 1
    /\ \A r \in store : r.id # last.id

\* C27: a run of init_db on a store that holds an item named "Test Item"
\* changes nothing, and a run on a store that holds none leaves exactly one;
\* so after any number of runs in a row the number of such items is what it
\* was after the first.
C27_SeedingIdempotent ==
    [][(last'.op = "init_db" /\ last'.outcome = "ok") =>
          LET before == {r \in store : r.name = Some("Test Item")}
              after == {r \in store' : r.name = Some("Test Item")}
          IN  /\ before # {} => store' = store
              /\ before = {} => (Cardinality(after) = 1 /\ store \subseteq store')
              /\ after # {}]_vars

\* a run that found the item of an earlier run and created nothing, with
\* another item stored beside it
C27_Witness ==
    /\ last.op = "init_db"
    /\ ~last.created
    /\ Cardinality(store) = 2
    /\ \E r \in store : r.description = Some("This is a test item")


RECURSIVE SumOver(_, _)
SumOver(f, S) ==
    IF S = {} THEN 0
    ELSE LET x == CHOOSE y \in S : TRUE IN f[x] + SumOver(f, S \ {x})

\* requests to paths other than /metrics for which call_next returned a
\* response
Responded(m) ==
    {q \in Requests : /\ m.requests[q].pc = "done"
                      /\ m.requests[q].path # "/metrics"
                      /\ m.requests[q].result.kind = "response"}

C24_ConcurrentDeletesOneWins ==
    \A u \in Units : \A v \in Units \ {u} :
        (/\ inflight[u].pc = "done" /\ inflight[v].pc = "done"
         /\ inflight[u].op = "delete" /\ inflight[v].op = "delete"
         /\ inflight[u].id = inflight[v].id
         /\ inflight[u].outcome # "not_found") =>
            /\ inflight[u].outcome = "ok"
            /\ inflight[u].ret # {}
            /\ inflight[v].outcome = "not_found"

\* C25: an update step that runs after a delete of its row has committed
\* leaves the row absent and does not end in success.
C25_UpdateNeverResurrects ==
    [][\A u \in Units :
         (/\ inflight[u].pc = "loaded"
          /\ inflight[u].op = "update"
          /\ inflight'[u].pc = "done"
          /\ get(store, inflight[u].id) = {}) =>
             /\ get(store', inflight[u].id) = {}
             /\ inflight'[u].outcome # "ok"
             /\ inflight'[u].ret = {}]_vars

\* an update loaded the row, a delete of the same id returned it, and the
\* update has ended in an error with the row absent
C25_Witness ==
    \E u \in Units : \E v \in Units \ {u} :
        /\ inflight[u].pc = "done" /\ inflight[u].op = "update"
        /\ inflight[u].loaded # {}
        /\ inflight[u].outcome = "error"
        /\ inflight[v].pc = "done" /\ inflight[v].op = "delete"
        /\ inflight[v].outcome = "ok"
        /\ inflight[v].id = inflight[u].id
        /\ get(store, inflight[u].id) = {}

====
